---- MODULE Spec2Model ----
(***************************************************************************)
(* dcompose (crate `yammer`): scaffold a docker compose file by composing  *)
(* services taken from compose files hosted on Github.                     *)
(*                                                                         *)
(*   src/src/lib.rs   GITHUB_SPEC_RE, ComposeServiceGithubSpec::from_str,  *)
(*                    DockerComposeFile, get_service, download_compose_file*)
(*   src/src/main.rs  main: the accumulation loop and the final write      *)
(*                                                                         *)
(* Two specifications:                                                     *)
(*   SpecParse  one command-line argument parsed by from_str               *)
(*   Spec       one run of main over already parsed arguments              *)
(*                                                                         *)
(* A text is a sequence of one-character strings, so that it can be        *)
(* scanned and cut the way the regex engine and str::split do.             *)
(***************************************************************************)
EXTENDS Integers, Sequences, FiniteSets, TLC

VARIABLES
    input,              \* SpecParse: the argument handed to from_str
    result,             \* SpecParse: what from_str returned
    parsed,             \* SpecParse: whether from_str has run
    compose_services,   \* opts.compose_services: the services each argument requests
    existing,           \* the file at opts.output before the run
    pc,                 \* position of main: "loop", "done", "panicked" ("idle" in SpecParse)
    idx,                \* index of the next element of the for loop (main.rs:43)
    merged,             \* main.rs:39  name -> service contents
    version,            \* main.rs:41  Option<String>
    fetched,            \* what download_compose_file returned, per iteration
    output              \* the file at opts.output now

vars == <<input, result, parsed, compose_services, existing, pc, idx,
          merged, version, fetched, output>>

----------------------------------------------------------------------------
(* Option<T>: None is the empty sequence, Some(x) the one-element sequence. *)

None == <<>>

Some(x) == <<x>>

IsSome(o) == Len(o) = 1

IsNone(o) == Len(o) = 0

Unwrap(o) == o[1]

Min(S) == CHOOSE x \in S : \A y \in S : x <= y

----------------------------------------------------------------------------
(* Texts *)

Suffix(s, i) == SubSeq(s, i, Len(s))

\* Index of the first element of s at or after `from` that is in `chars`, 0 if none.
FindFirst(s, from, chars) ==
    LET hits == {i \in from..Len(s) : s[i] \in chars}
    IN  IF hits = {} THEN 0 ELSE Min(hits)

\* str::split(sep).collect(): the pieces of s between the occurrences of sep.
RECURSIVE Split(_, _)
Split(s, sep) ==
    LET i == FindFirst(s, 1, {sep})
    IN  IF i = 0 THEN <<s>>
        ELSE <<SubSeq(s, 1, i - 1)>> \o Split(Suffix(s, i + 1), sep)

Last(seq) == seq[Len(seq)]

MASTER == <<"m", "a", "s", "t", "e", "r">>

----------------------------------------------------------------------------
(* GITHUB_SPEC_RE (lib.rs:9-11)                                             *)
(*   ^(?<project>[^\/]+)\/(?<repository>[^[\+:]]+)(?<branch>\+[^:]+)?       *)
(*    :(?<path>[^@]+)@(?<services>.+)$                                      *)
(* Every repetition is greedy and is followed by a character its class      *)
(* excludes, so the match, when there is one, is found by scanning for the  *)
(* first excluded character of each class; no shorter repetition can be     *)
(* followed by the required delimiter.  `.` does not match a line feed.     *)

NoCaptures == [matched |-> FALSE, project |-> None, repository |-> None,
               branch |-> None, path |-> None, services |-> None]

Captures(s) ==
    LET slash    == FindFirst(s, 1, {"/"})
        repoEnd  == IF slash = 0 THEN 0 ELSE FindFirst(s, slash + 1, {"+", ":"})
        hasPlus  == repoEnd # 0 /\ s[repoEnd] = "+"
        \* the ":" that ends the optional branch group, or the one right after the repository
        colon    == IF repoEnd = 0 THEN 0
                    ELSE IF hasPlus THEN FindFirst(s, repoEnd + 1, {":"})
                    ELSE repoEnd
        at       == IF colon = 0 THEN 0 ELSE FindFirst(s, colon + 1, {"@"})
        servs    == Suffix(s, at + 1)
    IN  IF /\ slash >= 2                          \* [^\/]+ then \/
           /\ repoEnd >= slash + 2                \* [^[\+:]]+
           /\ colon # 0
           /\ (hasPlus => colon >= repoEnd + 2)   \* \+[^:]+ then :
           /\ at >= colon + 2                     \* [^@]+ then @
           /\ at < Len(s)                         \* .+
           /\ \A i \in at + 1..Len(s) : s[i] # "\n"
        THEN [matched    |-> TRUE,
              project    |-> Some(SubSeq(s, 1, slash - 1)),
              repository |-> Some(SubSeq(s, slash + 1, repoEnd - 1)),
              branch     |-> IF hasPlus THEN Some(SubSeq(s, repoEnd, colon - 1)) ELSE None,
              path       |-> Some(SubSeq(s, colon + 1, at - 1)),
              services   |-> Some(servs)]
        ELSE NoCaptures

----------------------------------------------------------------------------
(* ComposeServiceGithubSpec::from_str (lib.rs:143-167) *)

ParseErr(msg) == [ok |-> FALSE, err |-> msg, project |-> <<>>, repository |-> <<>>,
                  branch |-> <<>>, filepath |-> <<>>, services |-> <<>>]

ERR_NO_MATCH == "Doesn't match expected regex."

ERR_PROJECT == "project/user is not specified"

ERR_REPOSITORY == "repository is not specified"

ERR_PATH == "path is not specified"

ERR_SERVICES == "no services are specified"

NotParsed == ParseErr("")

\* lib.rs:159-162  the branch group without its "+", or "master"
BranchOf(group) ==
    IF IsSome(group) THEN Last(Split(Unwrap(group), "+")) ELSE MASTER

from_str(s) ==
    LET captures == Captures(s)
    IN  IF ~captures.matched THEN ParseErr(ERR_NO_MATCH)
        ELSE IF IsNone(captures.project) THEN ParseErr(ERR_PROJECT)
        ELSE IF IsNone(captures.repository) THEN ParseErr(ERR_REPOSITORY)
        ELSE IF IsNone(captures.path) THEN ParseErr(ERR_PATH)
        ELSE IF IsNone(captures.services) THEN ParseErr(ERR_SERVICES)
        ELSE [ok         |-> TRUE,
              err        |-> "",
              project    |-> Unwrap(captures.project),
              repository |-> Unwrap(captures.repository),
              branch     |-> BranchOf(captures.branch),
              filepath   |-> Unwrap(captures.path),
              services   |-> Split(Unwrap(captures.services), ",")]

----------------------------------------------------------------------------
(* Documents.  A service's contents are opaque: a YAML mapping or some      *)
(* other YAML value.  A top-level YAML value is a string or a mapping.      *)

Names == {"db", "web"}

Mappings == {"m0", "m1", "m2"}        \* contents that are YAML mappings

Scalars == {"scalar"}                 \* contents that are not

\* serde_yaml::Value, as far as main tells the kinds apart
Str(s) == [str |-> Some(s), map |-> None]

Map(f) == [str |-> None, map |-> Some(f)]

EmptyMap == <<>>

\* Value::as_mapping (lib.rs:135)
as_mapping(v) == IF v \in Mappings THEN Some(v) ELSE None

\* serde_yaml decoding into DockerComposeFile (lib.rs:113-124, main.rs:78):
\* `version` must be a string and `services` a mapping when they are present,
\* and every other top-level key is ignored.
Decodes(top) ==
    /\ ("version" \in DOMAIN top => IsSome(top["version"].str))
    /\ ("services" \in DOMAIN top => IsSome(top["services"].map))

DockerComposeFile(top) ==
    [version  |-> IF "version" \in DOMAIN top THEN top["version"].str ELSE None,
     services |-> IF "services" \in DOMAIN top THEN top["services"].map ELSE None]

\* DockerComposeFile::get_service (lib.rs:133-136)
get_service(file, name) ==
    IF IsNone(file.services) THEN None
    ELSE IF name \notin DOMAIN Unwrap(file.services) THEN None
    ELSE as_mapping(Unwrap(file.services)[name])

\* HashMap::insert / HashMap::extend with one entry
Insert(map, key, value) ==
    [k \in DOMAIN map \cup {key} |-> IF k = key THEN value ELSE map[k]]

\* HashMap::extend: the entries of `more` replace those of `map` with the same key
Extend(map, more) ==
    [k \in DOMAIN map \cup DOMAIN more |-> IF k \in DOMAIN more THEN more[k] ELSE map[k]]

----------------------------------------------------------------------------
(* Inputs *)

MaxSpecs == 2         \* arguments on the command line

MaxNames == 2         \* names in the service list of a parsed argument

MaxBranchParts == 2   \* "+"-separated parts of the branch of a parsed argument

RECURSIVE Join(_, _)
Join(parts, sep) ==
    IF Len(parts) = 0 THEN <<>>
    ELSE IF Len(parts) = 1 THEN parts[1]
    ELSE parts[1] \o <<sep>> \o Join(Tail(parts), sep)

SeqsUpTo(S, lo, hi) == UNION {[1..n -> S] : n \in lo..hi}

ProjectTexts == {<<>>, <<"p">>, <<"p", ":", "q">>}

RepositoryTexts == {<<>>, <<"r">>, <<"r", "/", "x">>}

BranchTexts ==
    {<<>>} \cup {<<"+">> \o Join(parts, "+") :
                    parts \in SeqsUpTo({<<>>, <<"b">>, <<"c">>}, 1, MaxBranchParts)}

PathTexts == {<<>>, <<"f">>, <<"f", ":", "g">>}

ServicesTexts ==
    {Join(names, ",") : names \in SeqsUpTo({<<>>, <<"s">>, <<"t">>}, 0, MaxNames)}

\* arguments without all the delimiters
OtherTexts ==
    {<<>>, <<"p">>, <<"p", "/", "r">>, <<"p", "/", "r", ":", "f">>,
     <<"p", "/", "r", "@", "s">>, <<"p", ":", "f", "@", "s">>}

Arguments ==
    {p \o <<"/">> \o r \o b \o <<":">> \o f \o <<"@">> \o sv :
        p \in ProjectTexts, r \in RepositoryTexts, b \in BranchTexts,
        f \in PathTexts, sv \in ServicesTexts}
    \cup OtherTexts

\* what a remote file can hold
RemoteVersions == {"2", "3.8"}

RemoteServices ==
    {[db |-> "m1"], [db |-> "m2", web |-> "m2"], [db |-> "scalar", web |-> "m1"]}

RemoteFiles ==
    LET withVersion(top) == {top} \cup {Insert(top, "version", Str(v)) : v \in RemoteVersions}
    IN  UNION {withVersion(top) :
                 top \in {EmptyMap} \cup {[services |-> Map(s)] : s \in RemoteServices}}
        \cup {[services |-> Str("none")]}

\* what download_compose_file can return (lib.rs:106-109): the transport
\* fails, the bytes do not decode, or the decoded file
DownloadErr == [ok |-> FALSE, file |-> DockerComposeFile(EmptyMap)]

DownloadResults ==
    {DownloadErr}
    \cup {IF Decodes(top) THEN [ok |-> TRUE, file |-> DockerComposeFile(top)] ELSE DownloadErr :
            top \in RemoteFiles}

\* the services an argument requests
Requests == {<<"db">>, <<"web">>, <<"db", "web">>}

\* the file at opts.output before the run
ExistingTops ==
    {EmptyMap,
     [version |-> Str("1")],
     [services |-> Map([db |-> "m0"])],
     [version |-> Str("1"), services |-> Map([db |-> "m0", web |-> "m0"])],
     [version |-> Str("1"), services |-> Map([web |-> "m0"]), volumes |-> Map([data |-> "m0"])],
     [version |-> Str("1"), services |-> Str("none")]}

NoFile == [exists |-> FALSE, top |-> EmptyMap]

ExistingFiles == {NoFile} \cup {[exists |-> TRUE, top |-> t] : t \in ExistingTops}

----------------------------------------------------------------------------
(* SpecParse: clap hands one argument to from_str (main.rs:20, 37) *)

InitParse ==
    /\ input \in Arguments
    /\ result = NotParsed
    /\ parsed = FALSE
    /\ compose_services = <<>>
    /\ existing = NoFile
    /\ pc = "idle"
    /\ idx = 1
    /\ merged = EmptyMap
    /\ version = None
    /\ fetched = <<>>
    /\ output = NoFile

Parse ==
    /\ pc = "idle"
    /\ ~parsed
    /\ result' = from_str(input)
    /\ parsed' = TRUE
    /\ UNCHANGED <<input, compose_services, existing, pc, idx, merged, version,
                   fetched, output>>

NextParse == Parse

SpecParse == InitParse /\ [][NextParse]_vars

----------------------------------------------------------------------------
(* Spec: main (main.rs:36-92) over the parsed arguments *)

Init ==
    /\ input = <<>>
    /\ result = NotParsed
    /\ parsed = FALSE
    /\ compose_services \in SeqsUpTo(Requests, 1, MaxSpecs)   \* required = true (main.rs:18)
    /\ existing \in ExistingFiles
    /\ pc = "loop"
    /\ idx = 1
    /\ merged = EmptyMap
    /\ version = None
    /\ fetched = <<>>
    /\ output = existing

\* main.rs:48-51
SelectVersionLatest(current, compose_file_version) ==
    IF IsSome(compose_file_version) THEN compose_file_version ELSE current

SelectVersion(current, compose_file_version) ==
    IF IsNone(current) /\ IsSome(compose_file_version)
    THEN Some(Unwrap(compose_file_version))
    ELSE current

\* main.rs:53-57  the inner loop over the requested services, in order
RECURSIVE InsertServicesKeepFirst(_, _, _)
InsertServicesKeepFirst(map, compose_file, services) ==
    IF Len(services) = 0 THEN map
    ELSE LET service == Head(services)
             service_contents == get_service(compose_file, service)
         IN  InsertServicesKeepFirst(
                 IF IsSome(service_contents) /\ service \notin DOMAIN map
                 THEN Insert(map, service, Unwrap(service_contents))
                 ELSE map,
                 compose_file, Tail(services))

RECURSIVE InsertServices(_, _, _)
InsertServices(map, compose_file, services) ==
    IF Len(services) = 0 THEN map
    ELSE LET service == Head(services)
             service_contents == get_service(compose_file, service)
         IN  InsertServices(
                 IF IsSome(service_contents)
                 THEN Insert(map, service, Unwrap(service_contents))
                 ELSE map,
                 compose_file, Tail(services))

InLoop == pc = "loop" /\ idx <= Len(compose_services)

\* main.rs:46-58  Ok(compose_file)
FetchOk ==
    /\ InLoop
    /\ \E r \in DownloadResults :
        /\ r.ok
        /\ version' = SelectVersion(version, r.file.version)
        /\ merged' = InsertServices(merged, r.file, compose_services[idx])
        /\ fetched' = Append(fetched, r)
    /\ idx' = idx + 1
    /\ UNCHANGED <<input, result, parsed, compose_services, existing, pc, output>>

\* a failed download that also forgets what was accumulated
FetchErrForgets ==
    /\ InLoop
    /\ fetched' = Append(fetched, DownloadErr)
    /\ idx' = idx + 1
    /\ merged' = EmptyMap
    /\ version' = None
    /\ UNCHANGED <<input, result, parsed, compose_services, existing, pc, output>>

\* main.rs:59-62  Err(err): report and continue
FetchErr ==
    /\ InLoop
    /\ fetched' = Append(fetched, DownloadErr)
    /\ idx' = idx + 1
    /\ UNCHANGED <<input, result, parsed, compose_services, existing, pc, merged,
                   version, output>>

LoopOver == pc = "loop" /\ idx > Len(compose_services)

\* main.rs:70  version.unwrap() on None
PanicNoVersion ==
    /\ LoopOver
    /\ IsNone(version)
    /\ pc' = "panicked"
    /\ UNCHANGED <<input, result, parsed, compose_services, existing, idx, merged,
                   version, fetched, output>>

\* main.rs:78  serde_yaml::from_str(..).unwrap() on a file that does not decode
PanicExisting ==
    /\ LoopOver
    /\ IsSome(version)
    /\ existing.exists
    /\ ~Decodes(existing.top)
    /\ pc' = "panicked"
    /\ UNCHANGED <<input, result, parsed, compose_services, existing, idx, merged,
                   version, fetched, output>>

\* main.rs:66-70
MergedOuter(services, vers) ==
    Insert(Insert(EmptyMap, "services", Map(services)), "version", Str(vers))

\* main.rs:77-84  what is kept of the file at the destination
ExistingContents(top) ==
    LET existing_contents == DockerComposeFile(top)
        existing_services == IF IsSome(existing_contents.services)
                             THEN Unwrap(existing_contents.services)
                             ELSE EmptyMap
    IN  Insert(EmptyMap, "services", Map(existing_services))

\* main.rs:72-87
AllContents(file, merged_outer) ==
    LET loaded == IF file.exists THEN Extend(EmptyMap, ExistingContents(file.top))
                  ELSE EmptyMap
    IN  Extend(loaded, merged_outer)

\* a final write that leaves the version out when none was selected
WriteOutputAnyVersion ==
    /\ LoopOver
    /\ existing.exists => Decodes(existing.top)
    /\ output' = [exists |-> TRUE,
                  top |-> IF IsSome(version)
                          THEN AllContents(existing, MergedOuter(merged, Unwrap(version)))
                          ELSE [services |-> Map(merged)]]
    /\ pc' = "done"
    /\ UNCHANGED <<input, result, parsed, compose_services, existing, idx, merged,
                   version, fetched>>

\* main.rs:66-91  the whole of the final part, when nothing panics
WriteOutput ==
    /\ LoopOver
    /\ IsSome(version)
    /\ existing.exists => Decodes(existing.top)
    /\ output' = [exists |-> TRUE,
                  top |-> AllContents(existing, MergedOuter(merged, Unwrap(version)))]
    /\ pc' = "done"
    /\ UNCHANGED <<input, result, parsed, compose_services, existing, idx, merged,
                   version, fetched>>

Next ==
    \/ FetchOk
    \/ FetchErr
    \/ PanicNoVersion
    \/ PanicExisting
    \/ WriteOutput

Spec == Init /\ [][Next]_vars

----------------------------------------------------------------------------
(* What the claims speak of, read off the inputs and the log of downloads *)

Max(S) == CHOOSE x \in S : \A y \in S : x >= y

Range(seq) == {seq[i] : i \in 1..Len(seq)}

\* iterations whose download succeeded with a file that defines a version
WithVersion == {i \in 1..Len(fetched) : fetched[i].ok /\ IsSome(fetched[i].file.version)}

\* the version of the first successfully fetched file that defines one
FirstRemoteVersion ==
    IF WithVersion = {} THEN None ELSE fetched[Min(WithVersion)].file.version

\* iterations that insert `name`: fetched, requested, and present as a service
Inserting(name) ==
    {i \in 1..Len(fetched) :
        /\ fetched[i].ok
        /\ name \in Range(compose_services[i])
        /\ IsSome(fetched[i].file.services)
        /\ name \in DOMAIN Unwrap(fetched[i].file.services)
        /\ Unwrap(fetched[i].file.services)[name] \in Mappings}

ContentsAt(i, name) == Unwrap(fetched[i].file.services)[name]

ExistingServices ==
    IF existing.exists /\ "services" \in DOMAIN existing.top
                       /\ IsSome(existing.top["services"].map)
    THEN Unwrap(existing.top["services"].map) ELSE EmptyMap

ExistingVersion ==
    IF existing.exists /\ "version" \in DOMAIN existing.top
    THEN existing.top["version"].str ELSE None

OutputServices == Unwrap(output.top["services"].map)

AllProcessed == Len(fetched) = Len(compose_services)

\* C1: every service of the file found at the destination that no remote
\* request inserts is in the written file with its contents unchanged.
C1_ExistingServicesPreserved ==
    (pc = "done" /\ existing.exists) =>
        \A n \in DOMAIN ExistingServices :
            Inserting(n) = {} =>
                /\ n \in DOMAIN OutputServices
                /\ OutputServices[n] = ExistingServices[n]

\* C2: the written version is the first remote version, else the version of
\* the file found at the destination; with only the latter the run succeeds.
C2_VersionFallsBackToExisting ==
    (pc # "loop" /\ existing.exists /\ Decodes(existing.top)) =>
        LET v == IF IsSome(FirstRemoteVersion) THEN FirstRemoteVersion ELSE ExistingVersion
        IN  IsSome(v) => /\ pc = "done"
                         /\ output.top["version"] = Str(Unwrap(v))

\* C3: every top-level key of the file found at the destination other than
\* `services` and `version` is in the written file with the same value.
C3_OtherTopLevelKeysPreserved ==
    (pc = "done" /\ existing.exists) =>
        \A k \in DOMAIN existing.top \ {"services", "version"} :
            /\ k \in DOMAIN output.top
            /\ output.top[k] = existing.top[k]

\* C4: after any number of iterations the selected version is the version of
\* the first successfully fetched file that defines one, and is unset while
\* there is none; so no later file changes it.
C4_FirstVersionWins == version = FirstRemoteVersion

C4_Witness ==
    \E i, j \in WithVersion :
        /\ i < j
        /\ fetched[i].file.version # fetched[j].file.version
        /\ version = fetched[i].file.version

\* C5: for every name the accumulator holds the contents from the last
\* iteration that inserted it (fetched, requested, and present in the file
\* as a service get_service returns), and holds nothing when there is none.
C5_LastInsertionWins ==
    \A n \in Names :
        IF Inserting(n) = {} THEN n \notin DOMAIN merged
        ELSE /\ n \in DOMAIN merged
             /\ merged[n] = ContentsAt(Max(Inserting(n)), n)

C5_Witness ==
    \E n \in Names : \E i, j \in Inserting(n) :
        /\ i < j
        /\ ContentsAt(i, n) # ContentsAt(j, n)
        /\ merged[n] = ContentsAt(j, n)

\* C6: an iteration whose download fails changes neither the accumulator nor
\* the selected version and moves on to the next argument; the run ends only
\* when every argument has been processed.
C6_FailedFetchIsSkipped ==
    /\ [][fetched' = Append(fetched, DownloadErr) =>
            /\ merged' = merged
            /\ version' = version
            /\ pc' = "loop"
            /\ idx' = idx + 1]_vars
    /\ [](pc # "loop" => AllProcessed)

C6_Witness ==
    /\ pc = "done"
    /\ Len(fetched) >= 2
    /\ ~fetched[1].ok
    /\ fetched[2].ok
    /\ merged # EmptyMap

\* C7: when neither a fetched file nor the file at the destination defines a
\* version the run fails and the destination is left as it was; and a
\* written file always has a version.
C7_NoVersionNoOutput ==
    /\ (AllProcessed /\ IsNone(FirstRemoteVersion) /\ IsNone(ExistingVersion)) =>
            /\ pc \in {"loop", "panicked"}
            /\ output = existing
    /\ pc = "done" =>
            /\ "version" \in DOMAIN output.top
            /\ IsSome(output.top["version"].str)

C7_Witness ==
    /\ pc = "panicked"
    /\ IsNone(FirstRemoteVersion)
    /\ IsNone(ExistingVersion)
    /\ \E i \in 1..Len(fetched) : fetched[i].ok
    /\ merged # EmptyMap
    /\ output = existing

----------------------------------------------------------------------------
(* The grammar of an argument, as the specification of the parser states it: *)
(*   spec := project "/" repo branch? ":" path "@" services                  *)

\* the fields between the delimiters, each possibly empty
Fields(s) ==
    LET slash   == FindFirst(s, 1, {"/"})
        repoEnd == IF slash = 0 THEN 0 ELSE FindFirst(s, slash + 1, {"+", ":"})
        plus    == repoEnd # 0 /\ s[repoEnd] = "+"
        colon   == IF repoEnd = 0 THEN 0
                   ELSE IF plus THEN FindFirst(s, repoEnd + 1, {":"}) ELSE repoEnd
        at      == IF colon = 0 THEN 0 ELSE FindFirst(s, colon + 1, {"@"})
    IN  IF slash = 0 \/ repoEnd = 0 \/ colon = 0 \/ at = 0
        THEN [found |-> FALSE, project |-> <<>>, repository |-> <<>>, hasBranch |-> FALSE,
              branch |-> <<>>, path |-> <<>>, services |-> <<>>]
        ELSE [found      |-> TRUE,
              project    |-> SubSeq(s, 1, slash - 1),
              repository |-> SubSeq(s, slash + 1, repoEnd - 1),
              hasBranch  |-> plus,
              branch     |-> IF plus THEN SubSeq(s, repoEnd + 1, colon - 1) ELSE <<>>,
              path       |-> SubSeq(s, colon + 1, at - 1),
              services   |-> Suffix(s, at + 1)]

MatchesGrammar(s) ==
    LET f == Fields(s)
    IN  /\ f.found
        /\ f.project # <<>>
        /\ f.repository # <<>>
        /\ f.hasBranch => f.branch # <<>>
        /\ f.path # <<>>
        /\ \A name \in Range(Split(f.services, ",")) : name # <<>>

\* C8: an argument that matches the grammar parses into the texts between
\* its delimiters, the branch being all of the text between "+" and ":".
C8_ParseRecoversFields ==
    (parsed /\ MatchesGrammar(input)) =>
        LET f == Fields(input)
        IN  /\ result.ok
            /\ result.project = f.project
            /\ result.repository = f.repository
            /\ result.branch = (IF f.hasBranch THEN f.branch ELSE MASTER)
            /\ result.filepath = f.path
            /\ result.services = Split(f.services, ",")

\* C9: only arguments that match the grammar parse, so a parsed service list
\* is not empty and has no empty name.
C9_OnlyGrammarParses ==
    (parsed /\ result.ok) =>
        /\ MatchesGrammar(input)
        /\ Len(result.services) >= 1
        /\ \A name \in Range(result.services) : name # <<>>

\* C10: an argument with all the delimiters and one required field empty
\* fails with the error that names that field, not with the no-match error.
C10_MissingFieldNamed ==
    LET f == Fields(input)
        empty == {e \in {ERR_PROJECT, ERR_REPOSITORY, ERR_PATH, ERR_SERVICES} :
                    \/ e = ERR_PROJECT /\ f.project = <<>>
                    \/ e = ERR_REPOSITORY /\ f.repository = <<>>
                    \/ e = ERR_PATH /\ f.path = <<>>
                    \/ e = ERR_SERVICES /\ f.services = <<>>}
    IN  (parsed /\ f.found /\ Cardinality(empty) = 1 /\ (f.hasBranch => f.branch # <<>>)) =>
            /\ ~result.ok
            /\ result.err \in empty
            /\ result.err # ERR_NO_MATCH

====
